---------------------------- MODULE Spec2Model ----------------------------
(***************************************************************************)
(* Offset-aware bitmap kernels of arrow/util/bitmap_ops.cc.                *)
(*                                                                         *)
(* Memory is byte addressed: a buffer is a function from byte index to a   *)
(* byte, and a byte is a function from bit position (0 = least             *)
(* significant) to BOOLEAN.  A 64-bit word is a function from bit position *)
(* 0..63 to BOOLEAN; words are loaded little-endian, so bit k of a word    *)
(* loaded at byte p is bit k % 8 of byte p + k \div 8.  Pointers are byte  *)
(* indices into the buffer they point into.                                *)
(***************************************************************************)
EXTENDS Integers, FiniteSets, Sequences, TLC

(***************************************************************************)
(* Bounds of the model.                                                    *)
(***************************************************************************)
MaxOff == 8
MaxWords == 3
MaxTail == 1
GuardBytes == 16

bits_per_word == 64

MaxLen == bits_per_word * MaxWords + MaxTail
Offsets == 0..MaxOff
\* lengths around every multiple of the word size, up to MaxWords words
Lengths == {l \in 0..MaxLen : l % bits_per_word <= MaxTail
                               \/ l % bits_per_word >= bits_per_word - MaxTail}

(***************************************************************************)
(* Bit-addressing primitives (arrow/util/bit_util.h).                      *)
(***************************************************************************)
BytesForBits(bits) == (bits + 7) \div 8

GetBit(bits, i) == bits[i \div 8][i % 8]

SetBit(bits, i) == [bits EXCEPT ![i \div 8][i % 8] = TRUE]

ClearBit(bits, i) == [bits EXCEPT ![i \div 8][i % 8] = FALSE]

ZeroByte == [b \in 0..7 |-> FALSE]

\* little-endian load of the eight bytes at p
SafeLoadAs(bytes, p) == [k \in 0..(bits_per_word - 1) |-> bytes[p + (k \div 8)][k % 8]]

\* little-endian store of a word to the eight bytes at p
SafeStore(bytes, p, word) ==
  [j \in DOMAIN bytes |->
     IF j >= p /\ j < p + 8 THEN [b \in 0..7 |-> word[8 * (j - p) + b]] ELSE bytes[j]]

WordBytes(p) == p..(p + 7)

(***************************************************************************)
(* 64-bit unsigned arithmetic on words.                                    *)
(***************************************************************************)
WordShr(w, s) == [k \in 0..(bits_per_word - 1) |-> IF k + s < bits_per_word THEN w[k + s] ELSE FALSE]
WordShl(w, s) == [k \in 0..(bits_per_word - 1) |-> IF k >= s THEN w[k - s] ELSE FALSE]
WordOr(a, b) == [k \in 0..(bits_per_word - 1) |-> a[k] \/ b[k]]
WordAnd(a, b) == [k \in 0..(bits_per_word - 1) |-> a[k] /\ b[k]]
WordXor(a, b) == [k \in 0..(bits_per_word - 1) |-> a[k] # b[k]]
WordNot(a) == [k \in 0..(bits_per_word - 1) |-> ~a[k]]
\* (1U << n) - 1 widened to 64 bits, for 0 <= n < 8
LowMask(n) == [k \in 0..(bits_per_word - 1) |-> k < n]


(***************************************************************************)
(* Sequential bit cursors (arrow/util/bitmap_reader.h, bitmap_writer.h).   *)
(* A cursor bound to zero bits touches no byte.  acc collects the byte     *)
(* indices the cursor has read or written.                                 *)
(***************************************************************************)
BitmapReader(bitmap, p, start_offset, length) ==
  [byte_offset |-> p + start_offset \div 8,
   bit_offset |-> start_offset % 8,
   position |-> 0,
   length |-> length,
   current_byte |-> IF length > 0 THEN bitmap[p + start_offset \div 8] ELSE ZeroByte,
   acc |-> IF length > 0 THEN {p + start_offset \div 8} ELSE {}]

ReaderIsSet(r) == r.current_byte[r.bit_offset]

ReaderNext(bitmap, r) ==
  IF r.bit_offset + 1 = 8
  THEN [r EXCEPT !.bit_offset = 0,
                 !.position = @ + 1,
                 !.byte_offset = @ + 1,
                 !.current_byte = IF r.position + 1 < r.length
                                  THEN bitmap[r.byte_offset + 1] ELSE @,
                 !.acc = IF r.position + 1 < r.length
                         THEN @ \cup {r.byte_offset + 1} ELSE @]
  ELSE [r EXCEPT !.bit_offset = @ + 1, !.position = @ + 1]

BitmapWriter(bitmap, p, start_offset, length) ==
  [bitmap |-> bitmap,
   byte_offset |-> p + start_offset \div 8,
   bit_mask |-> start_offset % 8,
   position |-> 0,
   length |-> length,
   current_byte |-> IF length > 0 THEN bitmap[p + start_offset \div 8] ELSE ZeroByte,
   acc |-> IF length > 0 THEN {p + start_offset \div 8} ELSE {}]

WriterSet(w) == [w EXCEPT !.current_byte[w.bit_mask] = TRUE]

WriterClear(w) == [w EXCEPT !.current_byte[w.bit_mask] = FALSE]

WriterNext(w) ==
  IF w.bit_mask + 1 = 8
  THEN LET flushed == [w.bitmap EXCEPT ![w.byte_offset] = w.current_byte]
       IN [w EXCEPT !.bit_mask = 0,
                    !.position = @ + 1,
                    !.bitmap = flushed,
                    !.byte_offset = @ + 1,
                    !.current_byte = IF w.position + 1 < w.length
                                     THEN flushed[w.byte_offset + 1] ELSE @,
                    !.acc = IF w.position + 1 < w.length
                            THEN @ \cup {w.byte_offset + 1} ELSE @]
  ELSE [w EXCEPT !.bit_mask = @ + 1, !.position = @ + 1]

WriterFinish(w) ==
  IF w.length > 0 /\ (w.bit_mask # 0 \/ w.position < w.length)
  THEN [w EXCEPT !.bitmap[w.byte_offset] = w.current_byte]
  ELSE w

(***************************************************************************)
(* TransferBitmap<invert_bits, restore_trailing_bits>: the engine of copy  *)
(* and invert.  The result holds the destination buffer after the call and *)
(* the byte indices of data and of dest the call has touched.              *)
(***************************************************************************)
load_word(bytes, p) == SafeLoadAs(bytes, p)

\* faulty variant: the bits carried in from the next word are dropped
shift_word_NoCarry(current, next, shift) == WordShr(current, shift)

shift_word(current, next, shift) ==
  IF shift = 0 THEN current
  ELSE WordOr(WordShr(current, shift), WordShl(next, bits_per_word - shift))

write_word(bytes, p, word) == SafeStore(bytes, p, word)

\* faulty variant: the word count is rounded up
TransferNWords_RoundUp(length) == (length + bits_per_word - 1) \div bits_per_word

TransferNWords(length) == length \div bits_per_word

\* faulty variant: the low bits of the first destination word are not kept
MergeDestCurrent_Clobber(dest_current, word, dest_mask) == word

\* (dest_current & dest_mask) | (word & ~dest_mask)
MergeDestCurrent(dest_current, word, dest_mask) ==
  WordOr(WordAnd(dest_current, dest_mask), WordAnd(word, WordNot(dest_mask)))

\* (dest_next & ~dest_mask) | (word & dest_mask)
MergeDestNext(dest_next, word, dest_mask) ==
  WordOr(WordAnd(dest_next, WordNot(dest_mask)), WordAnd(word, dest_mask))

\* one pass of the body of the 64-bit loop; st holds the loop's variables
TransferWordStep(invert_bits, data, bit_offset, dest_bit_offset, st) ==
  LET data_p == st.data_p + 8
      data_next == load_word(data, data_p)
      shifted == shift_word(st.data_current, data_next, bit_offset)
      word == IF invert_bits THEN WordNot(shifted) ELSE shifted
      dest_mask == LowMask(dest_bit_offset)
  IN IF dest_bit_offset # 0
     THEN LET rot == WordOr(WordShl(word, dest_bit_offset),
                            WordShr(word, bits_per_word - dest_bit_offset))
              dest_next0 == load_word(st.dest, st.dest_p + 8)
              dest_current == MergeDestCurrent(st.dest_current, rot, dest_mask)
              dest_next == MergeDestNext(dest_next0, rot, dest_mask)
          IN [i |-> st.i + 1,
              dest |-> write_word(write_word(st.dest, st.dest_p, dest_current),
                                  st.dest_p + 8, dest_next),
              data_p |-> data_p,
              dest_p |-> st.dest_p + 8,
              data_current |-> data_next,
              dest_current |-> dest_next,
              data_acc |-> st.data_acc \cup WordBytes(data_p),
              dest_acc |-> st.dest_acc \cup WordBytes(st.dest_p) \cup WordBytes(st.dest_p + 8)]
     ELSE [i |-> st.i + 1,
           dest |-> write_word(st.dest, st.dest_p, word),
           data_p |-> data_p,
           dest_p |-> st.dest_p + 8,
           data_current |-> data_next,
           dest_current |-> st.dest_current,
           data_acc |-> st.data_acc \cup WordBytes(data_p),
           dest_acc |-> st.dest_acc \cup WordBytes(st.dest_p)]

RECURSIVE TransferWordLoop(_, _, _, _, _, _)
TransferWordLoop(invert_bits, data, bit_offset, dest_bit_offset, st, n_words) ==
  IF st.i < n_words - 1
  THEN TransferWordLoop(invert_bits, data, bit_offset, dest_bit_offset,
                        TransferWordStep(invert_bits, data, bit_offset, dest_bit_offset, st),
                        n_words)
  ELSE st

\* the bit-at-a-time loop; st holds i and the two cursors
RECURSIVE TransferBitLoop(_, _, _, _)
TransferBitLoop(invert_bits, data, st, length) ==
  IF st.i < length
  THEN TransferBitLoop(invert_bits, data,
                       [i |-> st.i + 1,
                        reader |-> ReaderNext(data, st.reader),
                        writer |-> WriterNext(IF invert_bits # ReaderIsSet(st.reader)
                                              THEN WriterSet(st.writer)
                                              ELSE WriterClear(st.writer))],
                       length)
  ELSE [st EXCEPT !.writer = WriterFinish(st.writer)]

\* the path taken when either offset is not a multiple of 8
TransferUnaligned(invert_bits, data, byte_offset, bit_offset, length, dest_p, dest_bit_offset, dest) ==
  LET n_words == TransferNWords(length)
      st0 == [i |-> 0,
              dest |-> dest,
              data_p |-> byte_offset,
              dest_p |-> dest_p,
              data_current |-> LowMask(0),
              dest_current |-> LowMask(0),
              data_acc |-> {},
              dest_acc |-> {}]
      st == IF n_words > 1
            THEN TransferWordLoop(invert_bits, data, bit_offset, dest_bit_offset,
                                  [st0 EXCEPT !.data_current = load_word(data, byte_offset),
                                              !.dest_current = load_word(dest, dest_p),
                                              !.data_acc = WordBytes(byte_offset),
                                              !.dest_acc = WordBytes(dest_p)],
                                  n_words)
            ELSE st0
      rest == IF n_words > 1 THEN length - (n_words - 1) * bits_per_word ELSE length
      fin == TransferBitLoop(invert_bits, data,
                             [i |-> 0,
                              reader |-> BitmapReader(data, st.data_p, bit_offset, rest),
                              writer |-> BitmapWriter(st.dest, st.dest_p, dest_bit_offset, rest)],
                             rest)
  IN [dest |-> fin.writer.bitmap,
      data_acc |-> st.data_acc \cup fin.reader.acc,
      dest_acc |-> st.dest_acc \cup fin.writer.acc]

ByteNot(byte) == [b \in 0..7 |-> ~byte[b]]

\* faulty variant: the snapshot is read from its low bits
RECURSIVE RestoreTrailing_LowBits(_, _, _, _, _, _)
RestoreTrailing_LowBits(dest, dest_p, trail, trailing_bits, length, i) ==
  IF i < trailing_bits
  THEN RestoreTrailing_LowBits(IF trail[i]
                               THEN SetBit(dest, 8 * dest_p + length + i)
                               ELSE ClearBit(dest, 8 * dest_p + length + i),
                               dest_p, trail, trailing_bits, length, i + 1)
  ELSE dest

RECURSIVE RestoreTrailing(_, _, _, _, _, _)
RestoreTrailing(dest, dest_p, trail, trailing_bits, length, i) ==
  IF i < trailing_bits
  THEN RestoreTrailing(IF trail[i + 8 - trailing_bits]
                       THEN SetBit(dest, 8 * dest_p + length + i)
                       ELSE ClearBit(dest, 8 * dest_p + length + i),
                       dest_p, trail, trailing_bits, length, i + 1)
  ELSE dest

\* the path taken when both offsets are multiples of 8
TransferAligned(invert_bits, restore_trailing_bits, data, byte_offset, length, dest_p, dest) ==
  LET num_bytes == BytesForBits(length)
      trailing_bits == num_bytes * 8 - length
      trail == IF trailing_bits # 0 /\ restore_trailing_bits
               THEN dest[dest_p + num_bytes - 1] ELSE ZeroByte
      bulk == [j \in DOMAIN dest |->
                 IF j >= dest_p /\ j < dest_p + num_bytes
                 THEN IF invert_bits THEN ByteNot(data[byte_offset + (j - dest_p)])
                                     ELSE data[byte_offset + (j - dest_p)]
                 ELSE dest[j]]
  IN [dest |-> IF restore_trailing_bits
               THEN RestoreTrailing(bulk, dest_p, trail, trailing_bits, length, 0)
               ELSE bulk,
      data_acc |-> byte_offset..(byte_offset + num_bytes - 1),
      dest_acc |-> dest_p..(dest_p + num_bytes - 1)]

TransferBitmap(invert_bits, restore_trailing_bits, data, offset, length, dest_offset, dest) ==
  LET byte_offset == offset \div 8
      bit_offset == offset % 8
      dest_byte_offset == dest_offset \div 8
      dest_bit_offset == dest_offset % 8
  IN IF bit_offset # 0 \/ dest_bit_offset # 0
     THEN TransferUnaligned(invert_bits, data, byte_offset, bit_offset, length,
                            dest_byte_offset, dest_bit_offset, dest)
     ELSE TransferAligned(invert_bits, restore_trailing_bits, data, byte_offset, length,
                          dest_byte_offset, dest)


(***************************************************************************)
(* The allocating forms.  AllocateEmptyBitmap (arrow/buffer.h) returns     *)
(* BytesForBits(length) zero bytes.                                        *)
(***************************************************************************)
AllocateEmptyBitmap(length) == [j \in 0..(BytesForBits(length) - 1) |-> ZeroByte]

RECURSIVE ZeroTrailing(_, _, _)
ZeroTrailing(dest, i, end) ==
  IF i < end THEN ZeroTrailing(ClearBit(dest, i), i + 1, end) ELSE dest

\* faulty variant: the bits past the range are not cleared
TransferBitmapToNew_NoZero(invert_bits, data, offset, length) ==
  TransferBitmap(invert_bits, FALSE, data, offset, length, 0, AllocateEmptyBitmap(length))

TransferBitmapToNew(invert_bits, data, offset, length) ==
  LET buffer == AllocateEmptyBitmap(length)
      t == TransferBitmap(invert_bits, FALSE, data, offset, length, 0, buffer)
      num_bytes == BytesForBits(length)
      bits_to_zero == num_bytes * 8 - length
  IN [t EXCEPT !.dest = ZeroTrailing(t.dest, length, length + bits_to_zero)]

(***************************************************************************)
(* BitmapEquals.  The result holds the returned value and the byte indices *)
(* of left and of right the call has read.                                 *)
(***************************************************************************)
\* faulty variant: the byte holding the remaining bits is compared whole
BytesEqual_WholeLastByte(left, lp, right, rp, n) ==
  \A i \in 0..n : left[lp + i] = right[rp + i]

\* memcmp(left + lp, right + rp, n) == 0
BytesEqual(left, lp, right, rp, n) ==
  \A i \in 0..(n - 1) : left[lp + i] = right[rp + i]

\* for (i = from; i < bit_length; ++i) if (GetBit(left, ..) != GetBit(right, ..)) return false
RECURSIVE EqualsBitLoop(_, _, _, _, _, _)
EqualsBitLoop(left, left_bit, right, right_bit, st, bit_length) ==
  IF st.i < bit_length
  THEN IF GetBit(left, left_bit + st.i) # GetBit(right, right_bit + st.i)
       THEN [st EXCEPT !.equal = FALSE,
                       !.left_acc = @ \cup {(left_bit + st.i) \div 8},
                       !.right_acc = @ \cup {(right_bit + st.i) \div 8}]
       ELSE EqualsBitLoop(left, left_bit, right, right_bit,
                          [st EXCEPT !.i = @ + 1,
                                     !.left_acc = @ \cup {(left_bit + st.i) \div 8},
                                     !.right_acc = @ \cup {(right_bit + st.i) \div 8}],
                          bit_length)
  ELSE st

EqualsNWords(bit_length) == bit_length \div bits_per_word

RECURSIVE EqualsWordLoop(_, _, _, _, _, _)
EqualsWordLoop(left, left_offset, right, right_offset, st, n_words) ==
  IF st.equal /\ st.i < n_words - 1
  THEN LET left_p == st.left_p + 8
           left_next == load_word(left, left_p)
           left_word == shift_word(st.left_current, left_next, left_offset)
           right_p == st.right_p + 8
           right_next == load_word(right, right_p)
           right_word == shift_word(st.right_current, right_next, right_offset)
       IN EqualsWordLoop(left, left_offset, right, right_offset,
                         [i |-> st.i + 1,
                          equal |-> left_word = right_word,
                          left_p |-> left_p,
                          right_p |-> right_p,
                          left_current |-> left_next,
                          right_current |-> right_next,
                          left_acc |-> st.left_acc \cup WordBytes(left_p),
                          right_acc |-> st.right_acc \cup WordBytes(right_p)],
                         n_words)
  ELSE st

BitmapEquals(left, left_offset, right, right_offset, bit_length) ==
  IF left_offset % 8 = 0 /\ right_offset % 8 = 0
  THEN LET lp == left_offset \div 8
           rp == right_offset \div 8
           n == bit_length \div 8
           bytes_equal == BytesEqual(left, lp, right, rp, n)
           st0 == [i |-> n * 8, equal |-> TRUE,
                   left_acc |-> lp..(lp + n - 1), right_acc |-> rp..(rp + n - 1)]
       IN IF ~bytes_equal THEN [st0 EXCEPT !.equal = FALSE]
          ELSE EqualsBitLoop(left, left_offset, right, right_offset, st0, bit_length)
  ELSE LET lp == left_offset \div 8
           rp == right_offset \div 8
           lo == left_offset % 8
           ro == right_offset % 8
           n_words == EqualsNWords(bit_length)
           w0 == [i |-> 0, equal |-> TRUE, left_p |-> lp, right_p |-> rp,
                  left_current |-> LowMask(0), right_current |-> LowMask(0),
                  left_acc |-> {}, right_acc |-> {}]
           w == IF n_words > 1
                THEN EqualsWordLoop(left, lo, right, ro,
                                    [w0 EXCEPT !.left_current = load_word(left, lp),
                                               !.right_current = load_word(right, rp),
                                               !.left_acc = WordBytes(lp),
                                               !.right_acc = WordBytes(rp)],
                                    n_words)
                ELSE w0
           rest == IF n_words > 1 THEN bit_length - (n_words - 1) * bits_per_word
                                  ELSE bit_length
       IN IF ~w.equal
          THEN [i |-> w.i, equal |-> FALSE, left_acc |-> w.left_acc, right_acc |-> w.right_acc]
          ELSE EqualsBitLoop(left, 8 * w.left_p + lo, right, 8 * w.right_p + ro,
                             [i |-> 0, equal |-> TRUE,
                              left_acc |-> w.left_acc, right_acc |-> w.right_acc],
                             rest)

(***************************************************************************)
(* AND / OR / XOR.  op is "and", "or" or "xor"; BitOp is the bitwise       *)
(* functor on words and bytes, LogicalOp the functor on single bits.       *)
(***************************************************************************)
LogicalOp(op, a, b) ==
  CASE op = "and" -> a /\ b
    [] op = "or" -> a \/ b
    [] op = "xor" -> a # b

BitOpWord(op, a, b) ==
  CASE op = "and" -> WordAnd(a, b)
    [] op = "or" -> WordOr(a, b)
    [] op = "xor" -> WordXor(a, b)

BitOpByte(op, a, b) ==
  CASE op = "and" -> [k \in 0..7 |-> a[k] /\ b[k]]
    [] op = "or" -> [k \in 0..7 |-> a[k] \/ b[k]]
    [] op = "xor" -> [k \in 0..7 |-> a[k] # b[k]]

AlignedBitmapOp(op, left, left_offset, right, right_offset, out, out_offset, length) ==
  LET nbytes == BytesForBits(length + (left_offset % 8))
      lp == left_offset \div 8
      rp == right_offset \div 8
      op_ == out_offset \div 8
  IN [out |-> [j \in DOMAIN out |->
                 IF j >= op_ /\ j < op_ + nbytes
                 THEN BitOpByte(op, left[lp + (j - op_)], right[rp + (j - op_)])
                 ELSE out[j]],
      left_acc |-> lp..(lp + nbytes - 1),
      right_acc |-> rp..(rp + nbytes - 1),
      out_acc |-> op_..(op_ + nbytes - 1)]

Min3(a, b, c) == IF a <= b /\ a <= c THEN a ELSE IF b <= c THEN b ELSE c

UnalignedNWords(length, min_offset) == BytesForBits(length + min_offset) \div 8

\* faulty variant: the low bits of the first output word are not kept
MergeOutWord0_Clobber(out_word0, out_word, out_mask) == out_word

\* (out_word0 & out_mask) | (out_word & ~out_mask)
MergeOutWord0(out_word0, out_word, out_mask) ==
  WordOr(WordAnd(out_word0, out_mask), WordAnd(out_word, WordNot(out_mask)))

\* (out_word1 & ~out_mask) | (out_word & out_mask)
MergeOutWord1(out_word1, out_word, out_mask) ==
  WordOr(WordAnd(out_word1, WordNot(out_mask)), WordAnd(out_word, out_mask))

\* the next 64 bits of an operand from the word already loaded and the word
\* after it
UnalignedShiftWord(word0, word1, offset) ==
  IF offset # 0
  THEN WordOr(WordShr(word0, offset), WordShl(word1, bits_per_word - offset))
  ELSE word0

\* first half of the body of the do-while loop: the next word of each operand
\* is loaded and the operation applied; st holds the loop's variables
UnalignedLoadStep(op, left, left_offset, right, right_offset, st) ==
  LET left_p == st.left_p + 8
      left_word1 == SafeLoadAs(left, left_p)
      right_p == st.right_p + 8
      right_word1 == SafeLoadAs(right, right_p)
  IN [st EXCEPT !.left_p = left_p, !.right_p = right_p,
                !.left_word0 = left_word1, !.right_word0 = right_word1,
                !.out_word = BitOpWord(op,
                               UnalignedShiftWord(st.left_word0, left_word1, left_offset),
                               UnalignedShiftWord(st.right_word0, right_word1, right_offset)),
                !.left_acc = @ \cup WordBytes(left_p),
                !.right_acc = @ \cup WordBytes(right_p)]

\* (out_word << out_offset) | (out_word >> (bits_per_word - out_offset))
UnalignedRotate(out_word, out_offset) ==
  WordOr(WordShl(out_word, out_offset), WordShr(out_word, bits_per_word - out_offset))

\* the two stores of a pass whose out_offset is not 0; out_word is rotated
UnalignedStoreRotated(st, out_word, out_mask) ==
  [st EXCEPT !.nwords = @ - 1,
             !.out = SafeStore(SafeStore(st.out, st.out_p,
                                         MergeOutWord0(st.out_word0, out_word, out_mask)),
                               st.out_p + 8,
                               MergeOutWord1(SafeLoadAs(st.out, st.out_p + 8),
                                             out_word, out_mask)),
             !.out_p = @ + 8,
             !.out_word0 = MergeOutWord1(SafeLoadAs(st.out, st.out_p + 8),
                                         out_word, out_mask),
             !.out_acc = @ \cup WordBytes(st.out_p) \cup WordBytes(st.out_p + 8)]

\* second half of the body of the do-while loop: the result is stored
UnalignedStoreStep(out_offset, st) ==
  IF out_offset # 0
  THEN UnalignedStoreRotated(st, UnalignedRotate(st.out_word, out_offset),
                             LowMask(out_offset))
  ELSE [st EXCEPT !.nwords = @ - 1,
                  !.out = SafeStore(st.out, st.out_p, st.out_word),
                  !.out_p = @ + 8,
                  !.out_acc = @ \cup WordBytes(st.out_p)]

\* one pass of the body of the do-while loop
UnalignedWordStep(op, left, left_offset, right, right_offset, out_offset, st) ==
  UnalignedStoreStep(out_offset,
                     UnalignedLoadStep(op, left, left_offset, right, right_offset, st))

\* do { ... --nwords; } while (nwords > 1)
RECURSIVE UnalignedWordLoop(_, _, _, _, _, _, _)
RECURSIVE UnalignedWordLoopWhile(_, _, _, _, _, _, _)
UnalignedWordLoopWhile(op, left, left_offset, right, right_offset, out_offset, st) ==
  IF st.nwords > 1
  THEN UnalignedWordLoop(op, left, left_offset, right, right_offset, out_offset, st)
  ELSE st

UnalignedWordLoop(op, left, left_offset, right, right_offset, out_offset, st) ==
  UnalignedWordLoopWhile(op, left, left_offset, right, right_offset, out_offset,
    UnalignedWordStep(op, left, left_offset, right, right_offset, out_offset, st))

\* while (length--) { ... } writer.Finish()
RECURSIVE UnalignedBitLoop(_, _, _, _)
UnalignedBitLoop(op, left, right, st) ==
  IF st.length # 0
  THEN UnalignedBitLoop(op, left, right,
                        [length |-> st.length - 1,
                         left_reader |-> ReaderNext(left, st.left_reader),
                         right_reader |-> ReaderNext(right, st.right_reader),
                         writer |-> WriterNext(
                                      IF LogicalOp(op, ReaderIsSet(st.left_reader),
                                                   ReaderIsSet(st.right_reader))
                                      THEN WriterSet(st.writer)
                                      ELSE WriterClear(st.writer))])
  ELSE [st EXCEPT !.writer = WriterFinish(st.writer)]

\* the word-at-a-time part: st after it holds the cursors left_p, right_p and
\* out_p, the output buffer and the bytes touched
UnalignedWords(op, left, lp, left_offset, right, rp, right_offset, out, op_, out_offset, nwords) ==
  IF nwords > 1
  THEN UnalignedWordLoop(op, left, left_offset, right, right_offset, out_offset,
                         [nwords |-> nwords, out |-> out,
                          left_p |-> lp, right_p |-> rp, out_p |-> op_,
                          left_word0 |-> SafeLoadAs(left, lp),
                          right_word0 |-> SafeLoadAs(right, rp),
                          out_word0 |-> SafeLoadAs(out, op_),
                          out_word |-> LowMask(0),
                          left_acc |-> WordBytes(lp), right_acc |-> WordBytes(rp),
                          out_acc |-> WordBytes(op_)])
  ELSE [nwords |-> nwords, out |-> out,
        left_p |-> lp, right_p |-> rp, out_p |-> op_,
        left_word0 |-> LowMask(0), right_word0 |-> LowMask(0),
        out_word0 |-> LowMask(0), out_word |-> LowMask(0),
        left_acc |-> {}, right_acc |-> {}, out_acc |-> {}]

\* the buffer and the bytes touched once the bit loop has ended in fin
UnalignedResult(st, fin) ==
  [out |-> fin.writer.bitmap,
   left_acc |-> st.left_acc \cup fin.left_reader.acc,
   right_acc |-> st.right_acc \cup fin.right_reader.acc,
   out_acc |-> st.out_acc \cup fin.writer.acc]

\* the bit-at-a-time part, over the length bits the words did not cover
UnalignedResidual(op, left, left_offset, right, right_offset, out_offset, st, length) ==
  IF length # 0
  THEN UnalignedResult(st,
         UnalignedBitLoop(op, left, right,
           [length |-> length,
            left_reader |-> BitmapReader(left, st.left_p, left_offset, length),
            right_reader |-> BitmapReader(right, st.right_p, right_offset, length),
            writer |-> BitmapWriter(st.out, st.out_p, out_offset, length)]))
  ELSE [out |-> st.out, left_acc |-> st.left_acc, right_acc |-> st.right_acc,
        out_acc |-> st.out_acc]

UnalignedBitmapOp(op, left, left_offset_, right, right_offset_, out, out_offset_, length_) ==
  LET left_offset == left_offset_ % 8
      right_offset == right_offset_ % 8
      out_offset == out_offset_ % 8
      min_offset == Min3(left_offset, right_offset, out_offset)
      nwords == UnalignedNWords(length_, min_offset)
  IN UnalignedResidual(op, left, left_offset, right, right_offset, out_offset,
       UnalignedWords(op, left, left_offset_ \div 8, left_offset,
                      right, right_offset_ \div 8, right_offset,
                      out, out_offset_ \div 8, out_offset, nwords),
       IF nwords > 1 THEN length_ - (nwords - 1) * bits_per_word ELSE length_)

\* faulty variant: the bytewise path is chosen without looking at the right offset
BitmapOp_LeftOnly(op, left, left_offset, right, right_offset, length, out_offset, dest_) ==
  IF out_offset % 8 = left_offset % 8
  THEN AlignedBitmapOp(op, left, left_offset, right, right_offset, dest_, out_offset, length)
  ELSE UnalignedBitmapOp(op, left, left_offset, right, right_offset, dest_, out_offset, length)

BitmapOp(op, left, left_offset, right, right_offset, length, out_offset, dest_) ==
  IF out_offset % 8 = left_offset % 8 /\ out_offset % 8 = right_offset % 8
  THEN AlignedBitmapOp(op, left, left_offset, right, right_offset, dest_, out_offset, length)
  ELSE UnalignedBitmapOp(op, left, left_offset, right, right_offset, dest_, out_offset, length)

BitmapOpToNew(op, left, left_offset, right, right_offset, length, out_offset) ==
  LET phys_bits == length + out_offset
      out_buffer == AllocateEmptyBitmap(phys_bits)
  IN BitmapOp(op, left, left_offset, right, right_offset, length, out_offset, out_buffer)

(***************************************************************************)
(* CountSetBits.  BitmapWordAlign (arrow/util/align_util.h) splits the     *)
(* range by the address of data; data_addr is that address modulo the word *)
(* size in bytes.  visits counts the bit positions examined and visited    *)
(* collects them.                                                          *)
(***************************************************************************)
pop_len == 64

BitmapWordAlign(data_addr, bit_offset, length) ==
  LET bit_addr == data_addr * 8 + bit_offset
      aligned_bit_addr == ((bit_addr + pop_len - 1) \div pop_len) * pop_len
      leading_bits == IF length < aligned_bit_addr - bit_addr
                      THEN length ELSE aligned_bit_addr - bit_addr
      aligned_words == (length - leading_bits) \div pop_len
  IN [leading_bits |-> leading_bits,
      aligned_words |-> aligned_words,
      trailing_bit_offset |-> bit_offset + leading_bits + aligned_words * pop_len,
      aligned_start |-> (bit_offset + leading_bits) \div 8]

PopCount(word) == Cardinality({k \in 0..(pop_len - 1) : word[k]})

\* for (i = from; i < to; ++i) if (GetBit(data, i)) ++count
RECURSIVE CountBitLoop(_, _, _)
CountBitLoop(data_, st, to) ==
  IF st.i < to
  THEN CountBitLoop(data_,
                    [i |-> st.i + 1,
                     count |-> IF GetBit(data_, st.i) THEN st.count + 1 ELSE st.count,
                     visits |-> st.visits + 1,
                     visited |-> st.visited \cup {st.i}],
                    to)
  ELSE st

\* for (iter = u64_data; iter < end; ++iter) count += PopCount(*iter)
RECURSIVE CountWordLoop(_, _, _)
CountWordLoop(data_, st, end) ==
  IF st.i < end
  THEN CountWordLoop(data_,
                     [i |-> st.i + 8,
                      count |-> st.count + PopCount(SafeLoadAs(data_, st.i)),
                      visits |-> st.visits + pop_len,
                      visited |-> st.visited \cup (8 * st.i)..(8 * st.i + pop_len - 1)],
                     end)
  ELSE st

\* faulty variant: the trailing loop starts where the leading bits end
CountSetBits_TrailingFromLeading(data_, data_addr, bit_offset, length) ==
  LET p == BitmapWordAlign(data_addr, bit_offset, length)
      lead == CountBitLoop(data_,
                           [i |-> bit_offset, count |-> 0, visits |-> 0, visited |-> {}],
                           bit_offset + p.leading_bits)
      words == IF p.aligned_words > 0
               THEN CountWordLoop(data_, [lead EXCEPT !.i = p.aligned_start],
                                  p.aligned_start + 8 * p.aligned_words)
               ELSE lead
  IN CountBitLoop(data_, [words EXCEPT !.i = bit_offset + p.leading_bits],
                  bit_offset + length)

CountSetBits(data_, data_addr, bit_offset, length) ==
  LET p == BitmapWordAlign(data_addr, bit_offset, length)
      lead == CountBitLoop(data_,
                           [i |-> bit_offset, count |-> 0, visits |-> 0, visited |-> {}],
                           bit_offset + p.leading_bits)
      words == IF p.aligned_words > 0
               THEN CountWordLoop(data_, [lead EXCEPT !.i = p.aligned_start],
                                  p.aligned_start + 8 * p.aligned_words)
               ELSE lead
  IN CountBitLoop(data_, [words EXCEPT !.i = p.trailing_bit_offset], bit_offset + length)

(***************************************************************************)
(* State: the caller's buffers, the slice of data the caller holds, the    *)
(* call that was made and what it returned.                                *)
(***************************************************************************)
VARIABLES
  data,      \* first (or only) source buffer
  slice,     \* the (offset, length) view of data the caller passes
  right,     \* second source buffer of the binary kernels and of equals
  dest,      \* destination buffer
  dest0,     \* the destination buffer as it was when the call was made
  call,      \* the call made: its name and remaining arguments
  ret,       \* what the call returned
  acc        \* byte indices of each operand the call has touched

vars == <<data, slice, right, dest, dest0, call, ret, acc>>

MemBytes == BytesForBits(MaxOff + MaxLen) + GuardBytes

\* a fixed irregular bit pattern per seed: the parity of a cubic residue
PatternBit(seed, g) ==
  LET x == (g * 97 + seed * 61 + 13) % 1021
  IN ((x * x * x) % 1021) % 2 = 1
Pattern(seed) == [j \in 0..(MemBytes - 1) |-> [b \in 0..7 |-> PatternBit(seed, 8 * j + b)]]

\* bit i of a buffer, least significant bit of each byte first
BitOf(buf, i) == buf[i \div 8][i % 8]

NoCall == [fn |-> "none", op |-> "none", right_offset |-> 0, dest_offset |-> 0,
           restore_trailing_bits |-> FALSE, data_addr |-> 0]
NoRet == [equal |-> FALSE, count |-> 0, visits |-> 0, visited |-> {}]
NoAcc == [data |-> {}, right |-> {}, dest |-> {}]

Init ==
  /\ data = Pattern(1)
  /\ slice \in [offset : Offsets, length : Lengths]
  /\ right = Pattern(2)
  /\ dest = Pattern(3)
  /\ dest0 = dest
  /\ call = NoCall
  /\ ret = NoRet
  /\ acc = NoAcc

(***************************************************************************)
(* Copy and invert.                                                        *)
(***************************************************************************)
CopyBitmap ==
  /\ call.fn = "none"
  /\ \E dest_offset \in Offsets, restore_trailing_bits \in BOOLEAN :
       LET t == TransferBitmap(FALSE, restore_trailing_bits, data, slice.offset,
                               slice.length, dest_offset, dest)
       IN /\ dest' = t.dest
          /\ acc' = [data |-> t.data_acc, right |-> {}, dest |-> t.dest_acc]
          /\ call' = [NoCall EXCEPT !.fn = "CopyBitmap", !.dest_offset = dest_offset,
                                    !.restore_trailing_bits = restore_trailing_bits]
  /\ UNCHANGED <<data, slice, right, dest0, ret>>

InvertBitmap ==
  /\ call.fn = "none"
  /\ \E dest_offset \in Offsets :
       LET t == TransferBitmap(TRUE, TRUE, data, slice.offset, slice.length,
                               dest_offset, dest)
       IN /\ dest' = t.dest
          /\ acc' = [data |-> t.data_acc, right |-> {}, dest |-> t.dest_acc]
          /\ call' = [NoCall EXCEPT !.fn = "InvertBitmap", !.dest_offset = dest_offset,
                                    !.restore_trailing_bits = TRUE]
  /\ UNCHANGED <<data, slice, right, dest0, ret>>

TransferToNewCall(fn, invert_bits) ==
  /\ call.fn = "none"
  /\ LET t == TransferBitmapToNew(invert_bits, data, slice.offset, slice.length)
     IN /\ dest' = t.dest
        /\ dest0' = AllocateEmptyBitmap(slice.length)
        /\ acc' = [data |-> t.data_acc, right |-> {}, dest |-> t.dest_acc]
        /\ call' = [NoCall EXCEPT !.fn = fn]
  /\ UNCHANGED <<data, slice, right, ret>>

CopyBitmapToNew == TransferToNewCall("CopyBitmapToNew", FALSE)

InvertBitmapToNew == TransferToNewCall("InvertBitmapToNew", TRUE)

(***************************************************************************)
(* Equals.  The right operand agrees with the left one on the compared     *)
(* range except at position flip (none when flip = -1), and is the         *)
(* complement of the left operand's bits everywhere outside the range.     *)
(***************************************************************************)
FlipPositions(length) == {-1} \cup ({0, length \div 2, length - 1} \cap 0..(length - 1))

EqualsRight(left, left_offset, right_offset, length, flip) ==
  [j \in 0..(MemBytes - 1) |->
     [b \in 0..7 |->
        LET k == 8 * j + b - right_offset
        IN IF k >= 0 /\ k < length
           THEN BitOf(left, left_offset + k) # (k = flip)
           ELSE IF left_offset + k >= 0 /\ left_offset + k < 8 * MemBytes
                THEN ~BitOf(left, left_offset + k)
                ELSE PatternBit(2, 8 * j + b)]]

BitmapEqualsCall ==
  /\ call.fn = "none"
  /\ \E right_offset \in Offsets, flip \in FlipPositions(slice.length) :
       LET r == EqualsRight(data, slice.offset, right_offset, slice.length, flip)
           e == BitmapEquals(data, slice.offset, r, right_offset, slice.length)
       IN /\ right' = r
          /\ ret' = [NoRet EXCEPT !.equal = e.equal]
          /\ acc' = [data |-> e.left_acc, right |-> e.right_acc, dest |-> {}]
          /\ call' = [NoCall EXCEPT !.fn = "BitmapEquals", !.right_offset = right_offset]
  /\ UNCHANGED <<data, slice, dest, dest0>>

(***************************************************************************)
(* AND / OR / XOR.                                                         *)
(***************************************************************************)
\* right offsets tried with a left and an out offset: the out offset, and one
\* that differs from it
RightOffsets(left_offset, out_offset) ==
  {out_offset, (left_offset + out_offset + 1) % (MaxOff + 1)}

BitmapOpCall(fn, op) ==
  /\ call.fn = "none"
  /\ \E out_offset \in Offsets :
       \E right_offset \in RightOffsets(slice.offset, out_offset) :
         \E t \in {BitmapOp(op, data, slice.offset, right, right_offset, slice.length,
                            out_offset, dest)} :
            /\ dest' = t.out
            /\ acc' = [data |-> t.left_acc, right |-> t.right_acc, dest |-> t.out_acc]
            /\ call' = [NoCall EXCEPT !.fn = fn, !.op = op, !.right_offset = right_offset,
                                      !.dest_offset = out_offset]
  /\ UNCHANGED <<data, slice, right, dest0, ret>>

BitmapOpToNewCall(fn, op) ==
  /\ call.fn = "none"
  /\ \E out_offset \in Offsets :
       \E right_offset \in {slice.offset, out_offset} :
         \E t \in {BitmapOpToNew(op, data, slice.offset, right, right_offset,
                                 slice.length, out_offset)} :
            /\ dest' = t.out
            /\ dest0' = AllocateEmptyBitmap(slice.length + out_offset)
            /\ acc' = [data |-> t.left_acc, right |-> t.right_acc, dest |-> t.out_acc]
            /\ call' = [NoCall EXCEPT !.fn = fn, !.op = op, !.right_offset = right_offset,
                                      !.dest_offset = out_offset]
  /\ UNCHANGED <<data, slice, right, ret>>

BitmapAnd == BitmapOpCall("BitmapAnd", "and")
BitmapOr == BitmapOpCall("BitmapOr", "or")
BitmapXor == BitmapOpCall("BitmapXor", "xor")
BitmapAndToNew == BitmapOpToNewCall("BitmapAndToNew", "and")
BitmapOrToNew == BitmapOpToNewCall("BitmapOrToNew", "or")
BitmapXorToNew == BitmapOpToNewCall("BitmapXorToNew", "xor")

(***************************************************************************)
(* Population count.                                                       *)
(***************************************************************************)
CountSetBitsCall ==
  /\ call.fn = "none"
  /\ \E data_addr \in 0..7 :
       LET c == CountSetBits(data, data_addr, slice.offset, slice.length)
       IN /\ ret' = [NoRet EXCEPT !.count = c.count, !.visits = c.visits,
                                  !.visited = c.visited]
          /\ call' = [NoCall EXCEPT !.fn = "CountSetBits", !.data_addr = data_addr]
  /\ UNCHANGED <<data, slice, right, dest, dest0, acc>>

(***************************************************************************)
(* Specifications: one per family of kernels, one of the in-place kernels  *)
(* and one of every kernel.                                                *)
(***************************************************************************)
NextTransfer == CopyBitmap \/ InvertBitmap \/ CopyBitmapToNew \/ InvertBitmapToNew

NextEquals == BitmapEqualsCall

NextBitmapOp ==
  \/ BitmapAnd \/ BitmapOr \/ BitmapXor
  \/ BitmapAndToNew \/ BitmapOrToNew \/ BitmapXorToNew

NextCount == CountSetBitsCall

NextInPlace ==
  \/ CopyBitmap \/ InvertBitmap \/ BitmapEqualsCall
  \/ BitmapAnd \/ BitmapOr \/ BitmapXor

Next == NextTransfer \/ NextEquals \/ NextBitmapOp \/ NextCount

SpecTransfer == Init /\ [][NextTransfer]_vars
SpecEquals == Init /\ [][NextEquals]_vars
SpecBitmapOp == Init /\ [][NextBitmapOp]_vars
SpecCount == Init /\ [][NextCount]_vars
SpecInPlace == Init /\ [][NextInPlace]_vars
Spec == Init /\ [][Next]_vars

(***************************************************************************)
(* Properties.                                                             *)
(***************************************************************************)
InPlaceOps == {"BitmapAnd", "BitmapOr", "BitmapXor"}
ToNewOps == {"BitmapAndToNew", "BitmapOrToNew", "BitmapXorToNew"}

\* the bytes an operand given as (offset, length) occupies
ByteRange(offset, length) == (offset \div 8)..(BytesForBits(offset + length) - 1)

\* every bit of dest outside [lo, hi) has the value it had before the call
Untouched(lo, hi) ==
  /\ DOMAIN dest = DOMAIN dest0
  /\ \A j \in DOMAIN dest0 : \A b \in 0..7 :
       (8 * j + b < lo \/ 8 * j + b >= hi) => dest[j][b] = dest0[j][b]

\* a op b on single bits
RefOp(op, a, b) ==
  \/ op = "and" /\ a /\ b
  \/ op = "or" /\ (a \/ b)
  \/ op = "xor" /\ a # b

Congruent == /\ call.dest_offset % 8 = slice.offset % 8
             /\ call.dest_offset % 8 = call.right_offset % 8

BothByteAligned == slice.offset % 8 = 0 /\ call.dest_offset % 8 = 0

\* the bit positions of the last destination byte past the copied range
TrailingBits == (call.dest_offset + slice.length)..
                (call.dest_offset + 8 * BytesForBits(slice.length) - 1)

\* C1: after CopyBitmap, bit dest_offset+i of dest equals bit offset+i of data
\* for every 0 <= i < length, on the byte-aligned and on the general path.
C1_CopyBitExact ==
  call.fn = "CopyBitmap" =>
    \A i \in 0..(slice.length - 1) :
      BitOf(dest, call.dest_offset + i) = BitOf(data, slice.offset + i)

\* a general-path copy whose 64-bit loop ran at least twice
C1_Witness ==
  /\ call.fn = "CopyBitmap"
  /\ slice.length >= 3 * bits_per_word
  /\ slice.offset % 8 # 0
  /\ call.dest_offset % 8 # 0
  /\ dest # dest0

\* C2: after in-place AND / OR / XOR, bit out_offset+i of out equals
\* (bit left_offset+i of left) op (bit right_offset+i of right) for every
\* 0 <= i < length, on the bytewise and on the word-loop path.
C2_BitmapOpBitExact ==
  call.fn \in InPlaceOps =>
    \A i \in 0..(slice.length - 1) :
      BitOf(dest, call.dest_offset + i)
        = RefOp(call.op, BitOf(data, slice.offset + i), BitOf(right, call.right_offset + i))

\* an unaligned XOR whose word loop ran at least twice
C2_Witness ==
  /\ call.fn = "BitmapXor"
  /\ ~Congruent
  /\ slice.length >= 3 * bits_per_word
  /\ slice.offset % 8 # 0 /\ call.right_offset % 8 # 0 /\ call.dest_offset % 8 # 0
  /\ dest # dest0

\* C3: BitmapEquals returns true iff the two ranges agree bit for bit; no bit
\* outside the ranges decides the result.
C3_EqualsIffRangesAgree ==
  call.fn = "BitmapEquals" =>
    (ret.equal <=>
       \A i \in 0..(slice.length - 1) :
         BitOf(data, slice.offset + i) = BitOf(right, call.right_offset + i))

\* an unaligned comparison that ran the word loop and returned true although
\* the bits just before and just after the two ranges differ
C3_Witness ==
  /\ call.fn = "BitmapEquals"
  /\ ret.equal
  /\ slice.length >= 3 * bits_per_word
  /\ slice.offset % 8 # 0
  /\ call.right_offset % 8 # 0
  /\ call.right_offset % 8 # slice.offset % 8
  /\ BitOf(data, slice.offset + slice.length)
       # BitOf(right, call.right_offset + slice.length)
  /\ BitOf(data, slice.offset - 1) # BitOf(right, call.right_offset - 1)

\* C4: CountSetBits returns the number of set bits of the range, which is the
\* count of the same bits copied to offset 0; the leading bits, the aligned
\* words and the trailing bits examine every bit of the range exactly once
\* and no other bit.
C4_CountExact ==
  call.fn = "CountSetBits" =>
    LET range == slice.offset..(slice.offset + slice.length - 1)
    IN /\ ret.count = Cardinality({i \in range : BitOf(data, i)})
       /\ ret.visited = range
       /\ ret.visits = slice.length
       /\ ret.count = CountSetBits(TransferBitmapToNew(FALSE, data, slice.offset,
                                                       slice.length).dest,
                                   0, 0, slice.length).count

\* a count with leading bits, aligned words and trailing bits
C4_Witness ==
  /\ call.fn = "CountSetBits"
  /\ (call.data_addr * 8 + slice.offset) % pop_len # 0
  /\ slice.length >= 2 * pop_len + 1
  /\ (call.data_addr * 8 + slice.offset + slice.length) % pop_len # 0
  /\ ret.count > 0
  /\ ret.count < slice.length

\* C5: InvertBitmap, and CopyBitmap with restore_trailing_bits, leave every
\* bit of dest outside [dest_offset, dest_offset+length) as it was.
C5_RestoringTransferFrame ==
  (call.fn = "InvertBitmap" \/ (call.fn = "CopyBitmap" /\ call.restore_trailing_bits)) =>
    Untouched(call.dest_offset, call.dest_offset + slice.length)

\* a byte-aligned invert whose bulk store changed a trailing bit that was
\* then put back
C5_Witness ==
  /\ call.fn = "InvertBitmap"
  /\ BothByteAligned
  /\ slice.length % 8 # 0
  /\ slice.length > 8
  /\ \E g \in TrailingBits :
       BitOf(dest0, g) = BitOf(data, slice.offset + (g - call.dest_offset))

\* C6 as stated: CopyBitmap without restore_trailing_bits leaves every bit of
\* dest outside [dest_offset, dest_offset+length) as it was.
C6_Original ==
  (call.fn = "CopyBitmap" /\ ~call.restore_trailing_bits) =>
    Untouched(call.dest_offset, call.dest_offset + slice.length)

\* C6 as amended: CopyBitmap without restore_trailing_bits leaves every bit of
\* dest outside [dest_offset, dest_offset+length) as it was, except that when
\* both offsets are multiples of 8 the bits of the last destination byte past
\* the range take the source bits that follow the source range.
C6_NonRestoringCopyFrame ==
  (call.fn = "CopyBitmap" /\ ~call.restore_trailing_bits) =>
    IF BothByteAligned
    THEN /\ Untouched(call.dest_offset,
                      call.dest_offset + 8 * BytesForBits(slice.length))
         /\ \A g \in TrailingBits :
              BitOf(dest, g) = BitOf(data, slice.offset + (g - call.dest_offset))
    ELSE Untouched(call.dest_offset, call.dest_offset + slice.length)

\* a byte-aligned non-restoring copy that changed a bit past the range
C6_Witness ==
  /\ call.fn = "CopyBitmap"
  /\ ~call.restore_trailing_bits
  /\ BothByteAligned
  /\ \E g \in TrailingBits : BitOf(dest, g) # BitOf(dest0, g)

\* C7: when the three offsets are not all congruent mod 8, in-place
\* AND / OR / XOR leave every bit of out outside [out_offset, out_offset+length)
\* as it was, and write nothing when length = 0.
C7_UnalignedOpFrame ==
  (call.fn \in InPlaceOps /\ ~Congruent) =>
    /\ Untouched(call.dest_offset, call.dest_offset + slice.length)
    /\ slice.length = 0 => acc.dest = {}

\* an unaligned OR whose word loop ran with a read-modify-write of two words
C7_Witness ==
  /\ call.fn = "BitmapOr"
  /\ ~Congruent
  /\ call.dest_offset % 8 # 0
  /\ slice.length >= 2 * bits_per_word
  /\ dest # dest0

\* C8: the buffer returned by the allocating AND / OR / XOR has every bit of
\* [0, out_offset) and of [out_offset+length, 8*BytesForBits(out_offset+length))
\* equal to zero.
C8_ToNewOpCanonical ==
  call.fn \in ToNewOps =>
    /\ DOMAIN dest = 0..(BytesForBits(call.dest_offset + slice.length) - 1)
    /\ \A g \in 0..(call.dest_offset - 1) : ~BitOf(dest, g)
    /\ \A g \in (call.dest_offset + slice.length)..
                (8 * BytesForBits(call.dest_offset + slice.length) - 1) : ~BitOf(dest, g)

\* C9: the buffer returned by the allocating copy / invert holds the source
\* bits (copy) or their negation (invert) in [0, length) and zero in
\* [length, 8*BytesForBits(length)).
C9_ToNewTransferCanonical ==
  call.fn \in {"CopyBitmapToNew", "InvertBitmapToNew"} =>
    /\ DOMAIN dest = 0..(BytesForBits(slice.length) - 1)
    /\ \A i \in 0..(slice.length - 1) :
         BitOf(dest, i) = (BitOf(data, slice.offset + i) # (call.fn = "InvertBitmapToNew"))
    /\ \A g \in slice.length..(8 * BytesForBits(slice.length) - 1) : ~BitOf(dest, g)

\* a byte-aligned allocating copy whose source has a set bit past the range in
\* the last byte copied
C9_Witness ==
  /\ call.fn = "CopyBitmapToNew"
  /\ slice.offset % 8 = 0
  /\ slice.length > 8
  /\ \E g \in slice.length..(8 * BytesForBits(slice.length) - 1) :
       BitOf(data, slice.offset + g)

\* C10: every byte the in-place copy, invert, equals and AND / OR / XOR
\* kernels read or write lies in [offset/8, BytesForBits(offset+length)) of
\* its operand.
C10_AccessesInRange ==
  call.fn \in {"CopyBitmap", "InvertBitmap", "BitmapEquals"} \cup InPlaceOps =>
    /\ acc.data \subseteq ByteRange(slice.offset, slice.length)
    /\ acc.right \subseteq ByteRange(call.right_offset, slice.length)
    /\ acc.dest \subseteq ByteRange(call.dest_offset, slice.length)

\* an unaligned AND whose word loop ran and whose accesses reach the last
\* byte of each operand
C10_Witness ==
  /\ call.fn = "BitmapAnd"
  /\ ~Congruent
  /\ call.dest_offset % 8 # 0
  /\ slice.length >= 2 * bits_per_word
  /\ acc.data = ByteRange(slice.offset, slice.length)
  /\ acc.right = ByteRange(call.right_offset, slice.length)
  /\ acc.dest = ByteRange(call.dest_offset, slice.length)

=============================================================================
